---------------------------- MODULE Spec2Model ----------------------------
(***************************************************************************)
(* Model of the chat relay in backend/app/main.py: the /ws endpoint        *)
(* (websocket_endpoint), the Message model (backend/app/models/message.py) *)
(* and the connection manager it imports from app.websocket_manager.       *)
(*                                                                         *)
(* One coroutine runs websocket_endpoint per connection.  The coroutines   *)
(* share one event loop, so code between two awaits is one atomic step and *)
(* every await (receive_json, commit, refresh, each send inside broadcast) *)
(* is a point where another coroutine may run.                             *)
(***************************************************************************)
EXTENDS Integers, Sequences, FiniteSets, TLC

\* Number of connections (one websocket_endpoint coroutine each).
NumSessions == 2

\* Number of messages that may be accepted for persistence in one run.
MaxMsgs == 2

Sessions == 1..NumSessions

MsgIds == 1..MaxMsgs

\* Number of distinct readings of the clock in one run.
MaxClock == 2

VARIABLES
    pc,        \* pc[s]: where coroutine s is suspended
    data,      \* data[s]: local `data`, the last payload receive_json returned
    message,   \* message[s]: local `message`, the Message object being handled
    registry,  \* the manager's set of registered connections
    store,     \* the messages table, in commit order
    nextId,    \* the next value of the autoincrement id
    alive,     \* alive[s]: the client side of connection s is still open
    inbox,     \* inbox[s]: the payloads client s has been sent, in order
    todo,      \* todo[s]: handles of the running broadcast pass not yet tried
    origin,    \* history: origin[i] = the session and payload message i came from
    snapOf     \* history: snapOf[i] = the registry snapshot of message i's pass

vars == <<pc, data, message, registry, store, nextId, alive, inbox, todo,
          origin, snapOf>>

(***************************************************************************)
(* Payloads.  A payload is the dict receive_json returns; a key may be     *)
(* missing.  Content is a sequence of characters so that emptiness and     *)
(* whitespace are computed, usernames are only ever copied.                *)
(***************************************************************************)
Payloads ==
    { [username |-> "alice", content |-> <<"h", "i">>],
      [username |-> "", content |-> <<"h", "i">>],
      [content |-> <<" ">>],
      [content |-> <<>>],
      [username |-> "alice"] }

NoData == [none |-> TRUE]

NoSnap == {0}

NoOrigin == [session |-> 0, data |-> NoData]

\* dict.get(key, default)
Get(d, key, default) == IF key \in DOMAIN d THEN d[key] ELSE default

\* the lookup with the default left empty
ExtractUsernameEmptyDefault(d) == Get(d, "username", "")

\* username = data.get("username", "Anonymous")
ExtractUsername(d) == Get(d, "username", "Anonymous")

\* the lookup with a default that is not empty
ExtractContentSpaceDefault(d) == Get(d, "content", <<" ">>)

\* content = data.get("content", "")
ExtractContent(d) == Get(d, "content", <<>>)

\* a truthiness test that lets every content through
FalsyNever(c) == FALSE

\* Python truthiness of a str: `not content` is true exactly for ""
Falsy(c) == Len(c) = 0

\* Message(username=..., content=...): id and created_at are None (0) until
\* the commit
NewMessage(u, c) == [id |-> 0, username |-> u, content |-> c, created_at |-> 0]

\* datetime.isoformat: the text of a timestamp
IsoFormat(t) == <<"iso", t>>

NoMessage == NewMessage("", <<>>)

\* a serialisation that loses the id
ToDictNoId(m) ==
    [id |-> 0, username |-> m.username, content |-> m.content,
     created_at |-> IsoFormat(m.created_at)]

\* Message.to_dict
ToDict(m) ==
    [id |-> m.id, username |-> m.username, content |-> m.content,
     created_at |-> IsoFormat(m.created_at)]

(***************************************************************************)
(* The connection manager (app.websocket_manager).                         *)
(***************************************************************************)
\* manager.connect: the handshake completes and the handle is added
RegistryAdd(reg, h) == reg \cup {h}

\* a remove by position that takes the last handle when h is not found
RegistryRemovePopsLast(reg, h) ==
    IF h \in reg \/ reg = {}
    THEN reg \ {h}
    ELSE reg \ {CHOOSE m \in reg : \A x \in reg : x <= m}

\* manager.disconnect: remove the handle if present
RegistryRemove(reg, h) == reg \ {h}

\* the point-in-time view a broadcast pass iterates over
Snapshot(reg) == reg

\* a send to h succeeds iff its client is still there and its endpoint has
\* not returned (the server closes the socket when the endpoint returns)
Deliverable(h) == alive[h] /\ pc[h] # "closed"

Init ==
    /\ pc = [s \in Sessions |-> "connecting"]
    /\ data = [s \in Sessions |-> NoData]
    /\ message = [s \in Sessions |-> NoMessage]
    /\ registry = {}
    /\ store = <<>>
    /\ nextId = 1
    /\ alive = [s \in Sessions |-> TRUE]
    /\ inbox = [s \in Sessions |-> <<>>]
    /\ todo = [s \in Sessions |-> {}]
    /\ origin = [i \in MsgIds |-> NoOrigin]
    /\ snapOf = [i \in MsgIds |-> NoSnap]

\* messages accepted so far: committed, or waiting in a commit
Accepted == Len(store) + Cardinality({s \in Sessions : pc[s] = "commit"})

\* an id column that does not advance
AutoIncrementStuck(n) == n

\* Column(Integer, primary_key=True, autoincrement=True): the value after n
AutoIncrement(n) == n + 1

\* a handshake that completes without the handle being added
ConnectNoRegister(s) ==
    /\ pc[s] = "connecting"
    /\ pc' = [pc EXCEPT ![s] = "recv"]
    /\ UNCHANGED <<data, message, registry, store, nextId, alive, inbox, todo,
                   origin, snapOf>>

\* await manager.connect(websocket)
Connect(s) ==
    /\ pc[s] = "connecting"
    /\ pc' = [pc EXCEPT ![s] = "recv"]
    /\ registry' = RegistryAdd(registry, s)
    /\ UNCHANGED <<data, message, store, nextId, alive, inbox, todo, origin, snapOf>>

\* the client closes its side of the connection
ClientClose(s) ==
    /\ pc[s] \notin {"connecting", "closed"}
    /\ alive[s]
    /\ alive' = [alive EXCEPT ![s] = FALSE]
    /\ UNCHANGED <<pc, data, message, registry, store, nextId, inbox, todo, origin, snapOf>>

\* an except branch that returns without manager.disconnect
TerminateNoDisconnect(s) ==
    /\ pc' = [pc EXCEPT ![s] = "closed"]
    /\ registry' = registry

\* the except branches: manager.disconnect(websocket), and the endpoint returns
Terminate(s) ==
    /\ pc' = [pc EXCEPT ![s] = "closed"]
    /\ registry' = RegistryRemove(registry, s)

\* receive_json returns a payload; the loop body runs up to `await db.commit()`
ReceivePayload(s, d) ==
    /\ pc[s] = "recv"
    /\ alive[s]
    /\ data' = [data EXCEPT ![s] = d]
    /\ IF Falsy(ExtractContent(d))
       THEN UNCHANGED <<pc, message>>
       ELSE /\ Accepted < MaxMsgs
            /\ message' = [message EXCEPT
                   ![s] = NewMessage(ExtractUsername(d), ExtractContent(d))]
            /\ pc' = [pc EXCEPT ![s] = "commit"]
    /\ UNCHANGED <<registry, store, nextId, alive, inbox, todo, origin, snapOf>>

\* receive_json raises WebSocketDisconnect
ReceiveDisconnect(s) ==
    /\ pc[s] = "recv"
    /\ ~alive[s]
    /\ Terminate(s)
    /\ UNCHANGED <<data, message, store, nextId, alive, inbox, todo, origin, snapOf>>

\* receive_json raises another exception (the frame is not JSON)
ReceiveError(s) ==
    /\ pc[s] = "recv"
    /\ alive[s]
    /\ Terminate(s)
    /\ UNCHANGED <<data, message, store, nextId, alive, inbox, todo, origin, snapOf>>

\* default=datetime.utcnow: the readings the clock can give now; the clock
\* does not run backwards, and two readings may be equal
UtcNow == {t \in 1..MaxClock : \A k \in DOMAIN store : store[k].created_at <= t}

\* await db.commit() returns: the row is stored with the next id and the
\* time of the insert.  The table is the serialising point: id assignment,
\* timestamp and the append are one step.
CommitOk(s) ==
    /\ pc[s] = "commit"
    /\ \E t \in UtcNow :
           message' = [message EXCEPT ![s].id = nextId, ![s].created_at = t]
    /\ store' = Append(store, message'[s])
    /\ nextId' = AutoIncrement(nextId)
    /\ origin' = [origin EXCEPT ![nextId] = [session |-> s, data |-> data[s]]]
    /\ pc' = [pc EXCEPT ![s] = "refresh"]
    /\ UNCHANGED <<data, registry, alive, inbox, todo, snapOf>>

\* a failed commit that is swallowed: the loop goes on to the broadcast
CommitFailSwallowed(s) ==
    /\ pc[s] = "commit"
    /\ todo' = [todo EXCEPT ![s] = Snapshot(registry)]
    /\ pc' = [pc EXCEPT ![s] = IF Snapshot(registry) = {} THEN "recv" ELSE "bcast"]
    /\ UNCHANGED <<data, message, registry, store, nextId, alive, inbox, origin, snapOf>>

\* await db.commit() raises: nothing is stored, `except Exception` runs
CommitFail(s) ==
    /\ pc[s] = "commit"
    /\ Terminate(s)
    /\ UNCHANGED <<data, message, store, nextId, alive, inbox, todo, origin, snapOf>>

\* a broadcast started in the background: the loop receives again at once
AfterPassNoWait(s, left) == "recv"

\* the endpoint returns to `await websocket.receive_json()` when the pass is over
AfterPass(s, left) == IF left = {} THEN "recv" ELSE "bcast"

\* await db.refresh(message) returns; manager.broadcast(message.to_dict())
\* starts and takes its view of the registry
RefreshOk(s) ==
    /\ pc[s] = "refresh"
    /\ todo' = [todo EXCEPT ![s] = Snapshot(registry)]
    /\ snapOf' = [snapOf EXCEPT ![message[s].id] = Snapshot(registry)]
    /\ pc' = [pc EXCEPT ![s] = AfterPass(s, Snapshot(registry))]
    /\ UNCHANGED <<data, message, registry, store, nextId, alive, inbox, origin>>

\* await db.refresh(message) raises, `except Exception` runs
RefreshFail(s) ==
    /\ pc[s] = "refresh"
    /\ Terminate(s)
    /\ UNCHANGED <<data, message, store, nextId, alive, inbox, todo, origin, snapOf>>

\* a broadcast loop that stops at the first send that fails
DeliverAbortOnFailure(s, h) ==
    /\ pc[s] = "bcast"
    /\ h \in todo[s]
    /\ IF Deliverable(h)
       THEN /\ inbox' = [inbox EXCEPT ![h] = Append(inbox[h], ToDict(message[s]))]
            /\ todo' = [todo EXCEPT ![s] = todo[s] \ {h}]
            /\ UNCHANGED registry
       ELSE /\ registry' = RegistryRemove(registry, h)
            /\ todo' = [todo EXCEPT ![s] = {}]
            /\ UNCHANGED inbox
    /\ pc' = [pc EXCEPT ![s] = IF todo'[s] = {} THEN "recv" ELSE "bcast"]
    /\ UNCHANGED <<data, message, store, nextId, alive, origin, snapOf>>

\* a loop over the live list: dropping the failed handle from the list under
\* the loop makes the loop pass over the handle that follows it
DeliverSkipsAfterRemoval(s, h) ==
    /\ pc[s] = "bcast"
    /\ h \in todo[s]
    /\ IF Deliverable(h)
       THEN /\ inbox' = [inbox EXCEPT ![h] = Append(inbox[h], ToDict(message[s]))]
            /\ todo' = [todo EXCEPT ![s] = todo[s] \ {h}]
            /\ UNCHANGED registry
       ELSE /\ registry' = RegistryRemove(registry, h)
            /\ todo' = [todo EXCEPT ![s] = {x \in todo[s] : x < h}]
            /\ UNCHANGED inbox
    /\ pc' = [pc EXCEPT ![s] = IF todo'[s] = {} THEN "recv" ELSE "bcast"]
    /\ UNCHANGED <<data, message, store, nextId, alive, origin, snapOf>>

\* a send that is awaited until the peer takes it: it never returns for a
\* handle that cannot be sent to
DeliverBlocksOnStuckPeer(s, h) ==
    /\ pc[s] = "bcast"
    /\ h \in todo[s]
    /\ Deliverable(h)
    /\ todo' = [todo EXCEPT ![s] = todo[s] \ {h}]
    /\ inbox' = [inbox EXCEPT ![h] = Append(inbox[h], ToDict(message[s]))]
    /\ pc' = [pc EXCEPT ![s] = IF todo'[s] = {} THEN "recv" ELSE "bcast"]
    /\ UNCHANGED <<data, message, registry, store, nextId, alive, origin, snapOf>>

\* a loop that lets the exception of a failed send reach the endpoint
DeliverRaisesOnFailure(s, h) ==
    /\ pc[s] = "bcast"
    /\ h \in todo[s]
    /\ IF Deliverable(h)
       THEN /\ inbox' = [inbox EXCEPT ![h] = Append(inbox[h], ToDict(message[s]))]
            /\ todo' = [todo EXCEPT ![s] = todo[s] \ {h}]
            /\ pc' = [pc EXCEPT ![s] = IF todo'[s] = {} THEN "recv" ELSE "bcast"]
            /\ UNCHANGED registry
       ELSE /\ Terminate(s)
            /\ todo' = [todo EXCEPT ![s] = {}]
            /\ UNCHANGED inbox
    /\ UNCHANGED <<data, message, store, nextId, alive, origin, snapOf>>

\* one iteration of the broadcast loop: send to h, drop h when the send fails
Deliver(s, h) ==
    /\ pc[s] = "bcast"
    /\ h \in todo[s]
    /\ todo' = [todo EXCEPT ![s] = todo[s] \ {h}]
    /\ IF Deliverable(h)
       THEN /\ inbox' = [inbox EXCEPT ![h] = Append(inbox[h], ToDict(message[s]))]
            /\ UNCHANGED registry
       ELSE /\ registry' = RegistryRemove(registry, h)
            /\ UNCHANGED inbox
    /\ pc' = [pc EXCEPT ![s] = AfterPass(s, todo'[s])]
    /\ UNCHANGED <<data, message, store, nextId, alive, origin, snapOf>>

Next ==
    \/ \E s \in Sessions : Connect(s)
    \/ \E s \in Sessions : ClientClose(s)
    \/ \E s \in Sessions : \E d \in Payloads : ReceivePayload(s, d)
    \/ \E s \in Sessions : ReceiveDisconnect(s)
    \/ \E s \in Sessions : ReceiveError(s)
    \/ \E s \in Sessions : CommitOk(s)
    \/ \E s \in Sessions : CommitFail(s)
    \/ \E s \in Sessions : RefreshOk(s)
    \/ \E s \in Sessions : RefreshFail(s)
    \/ \E s \in Sessions : \E h \in Sessions : Deliver(s, h)

Spec == Init /\ [][Next]_vars

\* the steps of session s that wait for the database or for a send, not for
\* its client: the event loop resumes the coroutine when the awaited call
\* returns or raises
Progress(s) ==
    \/ CommitOk(s)
    \/ CommitFail(s)
    \/ RefreshOk(s)
    \/ RefreshFail(s)
    \/ \E h \in Sessions : Deliver(s, h)

\* every awaited database call and every send of a pass ends
Fairness == \A s \in Sessions : WF_vars(Progress(s))

FairSpec == Spec /\ Fairness

(***************************************************************************)
(* Helpers of the properties.                                              *)
(***************************************************************************)
\* the payload message i was built from
PayloadOf(i) == origin[i].data

\* the payload has no content key, or its content is the empty string
EmptyContent(d) == "content" \notin DOMAIN d \/ Len(d.content) = 0

\* the payload's content is empty once whitespace is trimmed from it
BlankContent(d) ==
    "content" \notin DOMAIN d \/ \A k \in DOMAIN d.content : d.content[k] = " "

\* everything any client has been sent
Delivered == UNION {{inbox[h][k] : k \in DOMAIN inbox[h]} : h \in Sessions}

\* the ids in the messages table
StoredIds == {store[k].id : k \in DOMAIN store}

\* the number of copies of message i that client h has been sent
Copies(h, i) == Cardinality({k \in DOMAIN inbox[h] : inbox[h][k].id = i})

(***************************************************************************)
(* C1.  As the code has it: a payload whose content is missing or is the   *)
(* empty string never becomes a row of the table and is never sent to any  *)
(* client.                                                                 *)
(***************************************************************************)
C1_EmptyContentDropped ==
    /\ \A i \in StoredIds : i \in MsgIds /\ ~EmptyContent(PayloadOf(i))
    /\ \A p \in Delivered : p.id \in MsgIds /\ ~EmptyContent(PayloadOf(p.id))

\* a session has dropped a payload with empty content and is receiving
\* again, while another payload has been stored
C1_Witness ==
    \E s \in Sessions :
        /\ pc[s] = "recv"
        /\ data[s] # NoData
        /\ EmptyContent(data[s])
        /\ Len(store) = 1

\* C1 as claimed: nor does a payload whose content is only whitespace
C1_BlankContentDropped ==
    /\ \A i \in StoredIds : i \in MsgIds /\ ~BlankContent(PayloadOf(i))
    /\ \A p \in Delivered : p.id \in MsgIds /\ ~BlankContent(PayloadOf(p.id))

(***************************************************************************)
(* C2.  As the code has it: a stored message carries "Anonymous" when its  *)
(* payload has no username key, and otherwise the payload's username       *)
(* unchanged, the empty string included; every copy sent to a client       *)
(* carries the stored username.                                            *)
(***************************************************************************)
UsernameAsCoded(d) ==
    IF "username" \notin DOMAIN d THEN "Anonymous" ELSE d.username

UsernameAsClaimed(d) ==
    IF "username" \notin DOMAIN d \/ d.username = "" THEN "Anonymous" ELSE d.username

C2_UsernameDefault ==
    /\ \A k \in DOMAIN store :
           /\ store[k].id \in MsgIds
           /\ store[k].username = UsernameAsCoded(PayloadOf(store[k].id))
    /\ \A p \in Delivered :
           /\ p.id \in MsgIds
           /\ p.username = UsernameAsCoded(PayloadOf(p.id))

\* a message sent without a username key has been stored and sent to a
\* client, and so has one sent with a username
C2_Witness ==
    /\ \E p \in Delivered :
           p.id \in StoredIds /\ "username" \notin DOMAIN PayloadOf(p.id)
    /\ \E p \in Delivered :
           p.id \in StoredIds /\ "username" \in DOMAIN PayloadOf(p.id)

\* C2 as claimed: the empty username is replaced by "Anonymous" too
C2_EmptyUsernameDefault ==
    /\ \A k \in DOMAIN store :
           /\ store[k].id \in MsgIds
           /\ store[k].username = UsernameAsClaimed(PayloadOf(store[k].id))
    /\ \A p \in Delivered :
           /\ p.id \in MsgIds
           /\ p.username = UsernameAsClaimed(PayloadOf(p.id))

Pending(i) ==
    UNION {todo[s] : s \in {x \in Sessions : pc[x] = "bcast" /\ message[x].id = i}}

\* message i's broadcast pass has taken its snapshot
PassStarted(i) == snapOf[i] # NoSnap

\* message i's broadcast pass has taken its snapshot and has ended
PassOver(i) == PassStarted(i) /\ Pending(i) = {}

\* the row of the table with id i, serialised field by field
Serialized(i) ==
    LET row == CHOOSE r \in {store[k] : k \in DOMAIN store} : r.id = i
    IN  [id |-> i, username |-> row.username, content |-> row.content,
         created_at |-> IsoFormat(row.created_at)]

(***************************************************************************)
(* C4.  A client is sent a message at most once, only if its handle was in *)
(* the snapshot taken for that message, and what it is sent is the         *)
(* serialised row; once the pass has ended, every handle of the snapshot   *)
(* that can still be sent to, the sender's own included, holds exactly one *)
(* copy, and a handle outside the snapshot holds none.                     *)
(***************************************************************************)
C4_ExactlyOneCopy ==
    \A i \in StoredIds : \A h \in Sessions :
        /\ Copies(h, i) <= 1
        /\ Copies(h, i) = 1 => PassStarted(i) /\ h \in snapOf[i]
        /\ \A k \in DOMAIN inbox[h] : inbox[h][k].id = i => inbox[h][k] = Serialized(i)
        /\ (PassStarted(i) /\ h \notin snapOf[i]) => Copies(h, i) = 0
        /\ (PassOver(i) /\ h \in snapOf[i] /\ Deliverable(h)) => Copies(h, i) = 1

\* one message went to every connection, the sender's included, and another
\* pass whose snapshot lacked a handle has ended without reaching it
C4_Witness ==
    /\ \E i \in StoredIds :
           /\ PassOver(i)
           /\ snapOf[i] = Sessions
           /\ \A h \in Sessions : Copies(h, i) = 1
    /\ \E i \in StoredIds : \E h \in Sessions :
           /\ PassOver(i)
           /\ h \notin snapOf[i]
           /\ snapOf[i] # {}
           /\ Copies(h, i) = 0

(***************************************************************************)
(* C5.  When a send of a broadcast pass has failed, the handle it failed   *)
(* on is out of the registry, and when the pass ends every handle of the   *)
(* snapshot that can be sent to has the message all the same.              *)
(***************************************************************************)
\* the handles message i's pass has tried and failed on
Failed(i) == {h \in snapOf[i] \ Pending(i) : Copies(h, i) = 0}

C5_FailureIsolated ==
    \A i \in StoredIds :
        (PassStarted(i) /\ Failed(i) # {}) =>
            /\ Failed(i) \cap registry = {}
            /\ PassOver(i) =>
                   \A h \in snapOf[i] : Deliverable(h) => Copies(h, i) = 1

\* a pass has ended in which one send failed and another succeeded, and the
\* session of the handle that failed has not yet seen its connection close
C5_Witness ==
    \E i \in StoredIds : \E f, h \in Sessions :
        /\ PassOver(i)
        /\ f \in Failed(i)
        /\ pc[f] = "recv"
        /\ h \in snapOf[i]
        /\ Copies(h, i) = 1

(***************************************************************************)
(* C6.  Everything a client has been sent is the serialisation of a row    *)
(* that is in the table, and a session is in a broadcast pass only with a  *)
(* message that is in the table: a message whose commit failed reaches no  *)
(* client.                                                                 *)
(***************************************************************************)
C6_PersistBeforeBroadcast ==
    /\ \A p \in Delivered : p.id \in StoredIds /\ p = Serialized(p.id)
    /\ \A s \in Sessions :
           pc[s] = "bcast" => message[s] \in {store[k] : k \in DOMAIN store}

\* one session's commit has failed and its endpoint has returned, while a
\* message of another session has been stored and sent
C6_Witness ==
    /\ \E s \in Sessions :
           pc[s] = "closed" /\ message[s] # NoMessage /\ message[s].id = 0
    /\ Delivered # {}

(***************************************************************************)
(* C7.  As claimed: every row of the table has had its broadcast pass      *)
(* started, or its session is between the commit and the broadcast.        *)
(***************************************************************************)
C7_PersistedIsBroadcast ==
    \A i \in StoredIds :
        \/ PassStarted(i)
        \/ \E s \in Sessions : pc[s] = "refresh" /\ message[s].id = i

(***************************************************************************)
(* C8.  As claimed: every client is sent messages in ascending id.         *)
(***************************************************************************)
C8_DeliveredInIdOrder ==
    \A h \in Sessions : \A k, l \in DOMAIN inbox[h] :
        k < l => inbox[h][k].id < inbox[h][l].id

(***************************************************************************)
(* C9.  As claimed: a step in which a session's commit fails (the session  *)
(* leaves the commit and the table is unchanged) takes that session back   *)
(* to receiving and leaves the registry as it was.                         *)
(***************************************************************************)
C9_PersistFailureKeepsSession ==
    [][\A s \in Sessions :
          (pc[s] = "commit" /\ pc'[s] # "commit" /\ store' = store) =>
              (pc'[s] = "recv" /\ registry' = registry)]_vars

(***************************************************************************)
(* C10.  The step in which a session's endpoint returns removes exactly    *)
(* that session's handle from the registry, a session that has returned    *)
(* takes no further step, and the registry never holds the handle of a     *)
(* session that has returned.                                              *)
(***************************************************************************)
C10_ClosedIsDeregistered ==
    /\ [](\A s \in Sessions : pc[s] = "closed" => s \notin registry)
    /\ [][\A s \in Sessions :
            /\ (pc[s] # "closed" /\ pc'[s] = "closed") =>
                   registry' = registry \ {s}
            /\ pc[s] = "closed" =>
                   /\ pc'[s] = "closed"
                   /\ data'[s] = data[s]
                   /\ message'[s] = message[s]]_vars

\* sessions have returned while another one is still registered
C10_Witness ==
    /\ \E s \in Sessions : pc[s] = "closed" /\ alive[s]
    /\ \E s \in Sessions : pc[s] = "recv" /\ s \in registry

(***************************************************************************)
(* C11.  Removing a handle that is not in the registry changes nothing and *)
(* stops nobody: the step in which a session's endpoint returns when its   *)
(* handle is already out of the registry leaves the registry as it was and *)
(* the session ends closed, and so does a failed send to a handle that is  *)
(* already out of the registry, after which the pass goes on.              *)
(***************************************************************************)
C11_RemoveIdempotent ==
    [][/\ \A s \in Sessions :
            (pc[s] # "closed" /\ pc'[s] = "closed" /\ s \notin registry) =>
                registry' = registry
       /\ \A s, h \in Sessions :
            (/\ pc[s] = "bcast"
             /\ h \in todo[s]
             /\ h \notin todo'[s]
             /\ inbox'[h] = inbox[h]
             /\ h \notin registry) =>
                (registry' = registry /\ pc'[s] \in {"bcast", "recv"})]_vars

\* a session has returned after a broadcast had already dropped its handle,
\* while another session is still registered
C11_Witness ==
    \E s, t \in Sessions :
        /\ pc[s] = "closed"
        /\ \E i \in StoredIds : PassOver(i) /\ s \in Failed(i)
        /\ t # s
        /\ t \in registry

(***************************************************************************)
(* C12.  The step in which a session receives a payload whose content is   *)
(* missing or empty changes nothing but the session's `data`: the table,   *)
(* the id counter, the registry, every client's inbox, every running pass  *)
(* and every session's position stay as they were, so the session is       *)
(* still receiving.                                                        *)
(***************************************************************************)
C12_EmptyPayloadChangesNothing ==
    [][\A s \in Sessions :
          (pc[s] = "recv" /\ data'[s] # data[s] /\ EmptyContent(data'[s])) =>
              /\ store' = store
              /\ nextId' = nextId
              /\ registry' = registry
              /\ inbox' = inbox
              /\ todo' = todo
              /\ message' = message
              /\ pc' = pc]_vars

\* a registered session has received {"content": ""} as its first payload
\* and is receiving again, with the table empty and the id counter untouched
C12_Witness ==
    \E s \in Sessions :
        /\ pc[s] = "recv"
        /\ data[s] = [content |-> <<>>]
        /\ message[s] = NoMessage
        /\ s \in registry
        /\ store = <<>>
        /\ nextId = 1

(***************************************************************************)
(* C13.  A session handles one payload at a time: while it is receiving or *)
(* committing, no pass of its own is running and every message it has      *)
(* stored has had its pass run to the end; so of two messages of one       *)
(* session the one with the smaller id was broadcast first, and every      *)
(* client that was sent both was sent them in that order.                  *)
(***************************************************************************)
\* the stored messages that came from session s
MessagesOf(s) == {i \in StoredIds : origin[i].session = s}

C13_OneSessionInOrder ==
    /\ \A s \in Sessions :
           pc[s] \in {"recv", "commit"} =>
               /\ todo[s] = {}
               /\ \A i \in MessagesOf(s) : PassOver(i)
    /\ \A s \in Sessions :
           Cardinality({i \in MessagesOf(s) : ~PassOver(i)}) <= 1
    /\ \A s \in Sessions : \A i, j \in MessagesOf(s) :
           (i < j /\ PassStarted(j)) => PassOver(i)
    /\ \A h \in Sessions : \A k, l \in DOMAIN inbox[h] :
           (/\ k < l
            /\ inbox[h][k].id \in StoredIds
            /\ inbox[h][l].id \in StoredIds
            /\ origin[inbox[h][k].id].session = origin[inbox[h][l].id].session)
               => inbox[h][k].id < inbox[h][l].id

\* one session has had two messages stored and broadcast, and a client has
\* been sent both
C13_Witness ==
    \E s, h \in Sessions :
        /\ MessagesOf(s) = {1, 2}
        /\ PassOver(1)
        /\ PassOver(2)
        /\ Len(inbox[h]) = 2

(***************************************************************************)
(* C14.  A broadcast pass starts with exactly the handles registered at    *)
(* that moment, and from then on its set of handles still to try only      *)
(* loses the one handle a step of the pass has just tried (sent to, or     *)
(* failed on and dropped); steps of other sessions that register or        *)
(* deregister leave it alone, and the pass ends only when none is left.    *)
(***************************************************************************)
C14_PointInTimeView ==
    /\ [](\A s \in Sessions :
             pc[s] = "bcast" =>
                 /\ todo[s] # {}
                 /\ PassStarted(message[s].id)
                 /\ todo[s] \subseteq snapOf[message[s].id])
    /\ [][\A s \in Sessions :
            /\ (pc[s] = "refresh" /\ pc'[s] \in {"bcast", "recv"}) =>
                   /\ todo'[s] = registry
                   /\ snapOf'[message[s].id] = registry
            /\ (pc[s] = "bcast" /\ todo'[s] = todo[s]) => pc'[s] = "bcast"
            /\ (pc[s] = "bcast" /\ todo'[s] # todo[s]) =>
                   \E h \in todo[s] :
                       /\ todo'[s] = todo[s] \ {h}
                       /\ \/ inbox'[h] = Append(inbox[h], ToDict(message[s]))
                          \/ inbox'[h] = inbox[h] /\ h \notin registry'
                       /\ pc'[s] = IF todo'[s] = {} THEN "recv" ELSE "bcast"]_vars

\* a pass is suspended with a handle still to try that has deregistered
\* since the snapshot
C14_Witness ==
    \E s, h \in Sessions :
        /\ pc[s] = "bcast"
        /\ h \in todo[s]
        /\ h \in snapOf[message[s].id]
        /\ pc[h] = "closed"
        /\ h \notin registry

C16_PeerFailureSparesSender ==
    [][\A s, h \in Sessions :
          (/\ pc[s] = "bcast"
           /\ h # s
           /\ h \in todo[s]
           /\ h \notin todo'[s]
           /\ inbox'[h] = inbox[h]) =>
              /\ pc'[s] = IF todo'[s] = {} THEN "recv" ELSE "bcast"
              /\ (s \in registry) = (s \in registry')
              /\ message'[s] = message[s]
              /\ alive'[s] = alive[s]]_vars

\* a pass in which the send to another session's handle failed has ended;
\* the sender has its own copy, is registered and is receiving again
C16_Witness ==
    \E s, f \in Sessions : \E i \in MessagesOf(s) :
        /\ f # s
        /\ PassOver(i)
        /\ f \in Failed(i)
        /\ Copies(s, i) = 1
        /\ pc[s] = "recv"
        /\ s \in registry
        /\ alive[s]

(***************************************************************************)
(* C17.  As claimed: whatever a session receives while its client's        *)
(* connection stays open, a payload or a frame that does not parse, the    *)
(* step leaves the session Active (receiving again, or on to the commit    *)
(* of a payload with content) and registered, and stores and sends         *)
(* nothing.                                                                *)
(***************************************************************************)
C17_MalformedPayloadKeepsSession ==
    [][\A s \in Sessions :
          (pc[s] = "recv" /\ alive[s] /\ alive'[s]) =>
              /\ pc'[s] \in {"recv", "commit"}
              /\ (s \in registry) = (s \in registry')
              /\ (pc'[s] = "recv" => store' = store /\ inbox' = inbox)]_vars

(***************************************************************************)
(* C18.  As claimed: created_at does not decrease as id grows, so the      *)
(* history read, which orders the rows by created_at, puts no row before   *)
(* a row with a smaller id, and that order is the order in which every     *)
(* client was sent the messages.                                           *)
(***************************************************************************)
\* get_messages, order_by(Message.created_at.asc()): row a comes before row b
HistoryBefore(a, b) == a.created_at < b.created_at

\* the rows of the table
Rows == {store[k] : k \in DOMAIN store}

\* the row with id i
RowOf(i) == CHOOSE r \in Rows : r.id = i

C18_HistoryOrderIsBroadcastOrder ==
    /\ \A a, b \in Rows : a.id < b.id => a.created_at <= b.created_at
    /\ \A a, b \in Rows : HistoryBefore(a, b) => a.id < b.id
    /\ \A h \in Sessions : \A k, l \in DOMAIN inbox[h] :
           k < l => /\ inbox[h][k].id < inbox[h][l].id
                    /\ ~HistoryBefore(RowOf(inbox[h][l].id), RowOf(inbox[h][k].id))

(***************************************************************************)
(* C19.  As the model has it: the handle of every Active session (its      *)
(* handshake is done and its endpoint has not yet seen the connection end) *)
(* is in the registry, unless a send of some broadcast pass has failed on  *)
(* that handle, which removes it at once.                                  *)
(***************************************************************************)
Active(s) == pc[s] \in {"recv", "commit", "refresh", "bcast"}

\* some broadcast pass has tried handle s and failed
DroppedByBroadcast(s) ==
    \E i \in StoredIds : PassStarted(i) /\ s \in Failed(i)

C19_ActiveIsRegistered ==
    \A s \in Sessions : Active(s) => (s \in registry \/ DroppedByBroadcast(s))

\* a session is still waiting to receive, its handle dropped by another
\* session's pass, while that other session is Active and registered
C19_Witness ==
    \E s, t \in Sessions :
        /\ pc[s] = "recv"
        /\ s \notin registry
        /\ DroppedByBroadcast(s)
        /\ t # s
        /\ Active(t)
        /\ t \in registry

\* C19 as claimed: also after a delivery to the handle has failed
C19_ActiveIsAlwaysRegistered ==
    \A s \in Sessions : Active(s) => s \in registry

=============================================================================
